---------------------------- MODULE Spec2Model ----------------------------
(***************************************************************************)
(* Model of src/scraper.js: a crawler built on async.queue.                *)
(*                                                                         *)
(* JavaScript runs every callback to completion, so one action of the      *)
(* model is one callback of the event loop:                                *)
(*   ProcessTick   the setImmediate callback async.queue schedules on push *)
(*   FetchSucceed  axios.get resolves with status 200: the rest of         *)
(*                 scrapeUrl's try block (lines 129-203)                   *)
(*   FetchFail     axios.get rejects, or the status is not 200: the catch  *)
(*                 block (lines 204-213)                                   *)
(*   TaskCallback  the completion callback async.queue runs when a         *)
(*                 worker's promise has settled (a microtask)              *)
(*   RetryTimer    the setTimeout callback of lines 207-209                *)
(*                                                                         *)
(* A string is a sequence of tokens; "https://shopify.dev" is one token,   *)
(* so that startsWith, includes, the origin and the pathname are computed  *)
(* and not assumed.                                                        *)
(***************************************************************************)
EXTENDS Integers, Sequences, FiniteSets, Bags, TLC

\* --------------------------------------------------------------- constants

\* Worker slots of the queue.  The source sets 100 (line 59); the model
\* scales it down so that the queue saturates.
MAX_CONCURRENCY == 2

\* Line 60.
MAX_RETRIES == 3

\* ----------------------------------------------------------------- strings

\* Line 58: const base = 'https://shopify.dev'.
B == "https://shopify.dev"
base == <<B>>

\* The hrefs a page may hold.
HrefPath == <<"/", "c">>                         \* '/c'
HrefAbsolute == <<B, "/", "a", "/", "b">>        \* 'https://shopify.dev/a/b'
HrefFragment == <<"#", "x">>                     \* '#x'
HrefOther == <<"https://other.test", "/">>       \* another site
HrefLookalike == <<B, ".evil.io", "/", "c">>     \* 'https://shopify.dev.evil.io/c'
HrefMalformed == <<"http://">>                   \* new URL() throws
HrefSchemeless == <<"//">>                       \* '//': new URL() throws

Schemes == {B, "https://other.test"}

RECURSIVE IndexOf(_, _, _)
\* The first position >= i of s holding a token of set T, or 0.
IndexOf(s, T, i) ==
  IF i > Len(s) THEN 0
  ELSE IF s[i] \in T THEN i
  ELSE IndexOf(s, T, i + 1)

\* String.prototype.includes for a one-token needle.
Includes(s, tok) == IndexOf(s, {tok}, 1) # 0

\* String.prototype.startsWith.
StartsWith(s, p) == Len(s) >= Len(p) /\ SubSeq(s, 1, Len(p)) = p

RECURSIVE Find(_, _, _)
\* String.prototype.indexOf: the first position >= i where pat occurs in s, or 0.
Find(s, pat, i) ==
  IF i + Len(pat) - 1 > Len(s) THEN 0
  ELSE IF SubSeq(s, i, i + Len(pat) - 1) = pat THEN i
  ELSE Find(s, pat, i + 1)

\* String.prototype.replace with a string pattern: the first occurrence only.
Replace(s, pat, rep) ==
  LET i == Find(s, pat, 1) IN
  IF i = 0 THEN s
  ELSE SubSeq(s, 1, i - 1) \o rep \o SubSeq(s, i + Len(pat), Len(s))

RECURSIVE ReplaceAll(_, _, _)
\* String.prototype.replaceAll with a string pattern.
ReplaceAll(s, pat, rep) ==
  LET i == Find(s, pat, 1) IN
  IF i = 0 THEN s
  ELSE SubSeq(s, 1, i - 1) \o rep
       \o ReplaceAll(SubSeq(s, i + Len(pat), Len(s)), pat, rep)

\* -------------------------------------------------------------------- URLs

\* new URL(u).origin: everything before the path or fragment (the URLs of the
\* model carry no query).
Origin(u) ==
  LET i == IndexOf(u, {"/", "#"}, 1) IN
  IF i = 0 THEN u ELSE SubSeq(u, 1, i - 1)

\* new URL(u).pathname: from the first "/" up to the fragment; an absolute URL
\* without a path has the pathname "/".
Pathname(u) ==
  LET i == IndexOf(u, {"/", "#"}, 1)
      j == IF i = 0 THEN 0 ELSE IndexOf(u, {"#"}, i) IN
  IF i = 0 \/ u[i] # "/" THEN <<"/">>
  ELSE IF j = 0 THEN SubSeq(u, i, Len(u))
  ELSE SubSeq(u, i, j - 1)

\* The fragment of u with its "#", or the empty string.
Fragment(u) ==
  LET i == IndexOf(u, {"#"}, 1) IN
  IF i = 0 THEN <<>> ELSE SubSeq(u, i, Len(u))

\* new URL(u, url) throws unless u can be resolved (line 139, caught at 148).
Resolvable(u) == u \notin {HrefMalformed, HrefSchemeless}

\* Line 139: new URL(u, url).href for a resolvable u.  An absolute u stands for
\* itself, a path is put behind the page's origin, a fragment behind the
\* page's URL without its own fragment; href always carries a path.
Resolve(u, url) ==
  IF u # <<>> /\ Head(u) \in Schemes
    THEN Origin(u) \o Pathname(u) \o Fragment(u)
  ELSE IF u # <<>> /\ Head(u) = "/"
    THEN Origin(url) \o u
  ELSE Origin(url) \o Pathname(url) \o u

\* Line 153: the identifier of a page on disk.
FileName(url) ==
  LET p1 == Replace(Pathname(url), <<"/">>, <<>>)
      p2 == ReplaceAll(p1, <<"/">>, <<"-">>)
      p3 == Replace(p2, <<"https", "-">>, <<>>)
      p4 == Replace(p3, <<"www", "-">>, <<>>)
      p5 == Replace(p4, <<":">>, <<>>)
  IN  Replace(p5, <<".">>, <<"-">>)

\* ------------------------------------------------------------------- state

VARIABLES
  tasks,                \* q._tasks: the WorkItems waiting in the queue, oldest first
  numRunning,           \* async.queue's count of workers that have not called back
  processingScheduled,  \* a setImmediate(q.process) is pending
  visited,              \* line 76
  all,                  \* line 77
  fetching,             \* the WorkItems whose axios.get is pending (line 126)
  settled,              \* the WorkItems whose worker promise has settled and whose
                        \* completion callback is still to run, oldest first
  timers,               \* the WorkItems a pending setTimeout will push (line 207)
  dirs,                 \* the identifiers whose directory exists under ./data
  metaData,             \* line 67
  scrapedPagesCount,    \* line 63
  drainCount,           \* how often the drain callback (line 220) was invoked
  crashed,              \* the process died of an uncaught exception
  pushed,               \* history: the bag of WorkItems ever given to queue.push
  fetches,              \* history: the bag of URLs axios.get was called with
  failures,             \* history: the bag of URLs whose fetch failed
  dispatched,           \* history: the bag of WorkItems handed to the worker
  mkdirs,               \* history: the bag of identifiers mkdirSync has created
  skipped,              \* history: the URLs line 159 found on disk already
  rediscovered,         \* history: the URLs line 142 found in `all` before
                        \* their visit, while another page was being fetched
  response              \* history: what the fetch returned whose continuation
                        \* ran last, until its completion callback has run

vars ==
  << tasks, numRunning, processingScheduled, visited, all, fetching, settled,
     timers, dirs, metaData, scrapedPagesCount, drainCount, crashed, pushed,
     fetches, failures, dispatched, mkdirs, skipped, rediscovered,
     response >>

\* The state as one record, for the operators that model the handlers.
State ==
  [ tasks |-> tasks, numRunning |-> numRunning,
    processingScheduled |-> processingScheduled, visited |-> visited,
    all |-> all, fetching |-> fetching, settled |-> settled, timers |-> timers,
    dirs |-> dirs, metaData |-> metaData,
    scrapedPagesCount |-> scrapedPagesCount, drainCount |-> drainCount,
    crashed |-> crashed, pushed |-> pushed, fetches |-> fetches,
    failures |-> failures, dispatched |-> dispatched, mkdirs |-> mkdirs,
    skipped |-> skipped, rediscovered |-> rediscovered, response |-> response,
    thrown |-> FALSE ]

Commit(st) ==
  /\ tasks' = st.tasks
  /\ numRunning' = st.numRunning
  /\ processingScheduled' = st.processingScheduled
  /\ visited' = st.visited
  /\ all' = st.all
  /\ fetching' = st.fetching
  /\ settled' = st.settled
  /\ timers' = st.timers
  /\ dirs' = st.dirs
  /\ metaData' = st.metaData
  /\ scrapedPagesCount' = st.scrapedPagesCount
  /\ drainCount' = st.drainCount
  /\ crashed' = st.crashed
  /\ pushed' = st.pushed
  /\ fetches' = st.fetches
  /\ failures' = st.failures
  /\ dispatched' = st.dispatched
  /\ mkdirs' = st.mkdirs
  /\ skipped' = st.skipped
  /\ rediscovered' = st.rediscovered
  /\ response' = st.response

WorkItem(url, retries) == [url |-> url, retries |-> retries]

\* What a successful fetch may return: the hrefs of the page in document
\* order, and its '.article--docs' region.
LinkLists ==
  { <<>>,                                   \* a page without hyperlinks
    <<HrefPath>>,
    <<HrefPath, HrefAbsolute>>,
    <<HrefAbsolute, HrefAbsolute>>,         \* the same link twice
    <<HrefMalformed, HrefPath>>,
    <<HrefFragment, HrefOther>>,            \* nothing to admit
    <<HrefLookalike, HrefAbsolute>>,
    <<HrefSchemeless, HrefPath>>,
    <<HrefPath, HrefAbsolute, HrefLookalike>> }

\* The '.article--docs' region: none, one that holds white space only, or
\* one with content.
Articles == {"absent", "empty", "content"}

\* Lines 173-180 resolve the hrefs inside the region that do not start with
\* 'http'; new URL(value, base) throws there for '//'.
RewriteThrows(page) ==
  /\ page.inArticle
  /\ \E i \in DOMAIN page.links : page.links[i] = HrefSchemeless

\* inArticle: the page's hyperlinks lie inside the region, which then has
\* content.  Where that makes no difference to lines 173-180 they are taken
\* to lie outside.
Pages ==
  { p \in [links : LinkLists, article : Articles, inArticle : BOOLEAN] :
      p.inArticle => (p.article = "content" /\ RewriteThrows(p)) }

\* How the filesystem may answer lines 190-193.
FsErrors == {"none", "mkdir", "write"}

\* ------------------------------------------------------------------- queue

\* queue.push (async.queue's _insert): the item joins the tail, and a
\* setImmediate(q.process) is scheduled unless one is pending.
QueuePush(st, item) ==
  [st EXCEPT !.tasks = Append(@, item),
             !.processingScheduled = TRUE,
             !.pushed = @ (+) SetToBag({item})]

\* Idle, had it looked at the queue's length alone.
IdleQueueLengthOnly(st) == Len(st.tasks) = 0

\* q.idle().
Idle(st) == Len(st.tasks) + st.numRunning = 0

\* HasFreeWorker, off by one.
HasFreeWorkerOffByOne(st) == st.numRunning <= MAX_CONCURRENCY

\* The loop condition of q.process.
HasFreeWorker(st) == st.numRunning < MAX_CONCURRENCY

\* ScrapeUrlStart, had it no visited guard.
ScrapeUrlStartUnguarded(st, item) ==
  [st EXCEPT !.visited = @ \cup {item.url},
             !.fetching = @ \cup {item},
             !.fetches = @ (+) SetToBag({item.url})]

\* Lines 115-126: scrapeUrl up to its await.  A visited URL returns at once,
\* so the worker's promise settles; any other is marked and fetched.
ScrapeUrlStart(st, item) ==
  IF item.url \in st.visited
    THEN [st EXCEPT !.settled = Append(@, item)]
    ELSE [st EXCEPT !.visited = @ \cup {item.url},
                    !.fetching = @ \cup {item},
                    !.fetches = @ (+) SetToBag({item.url})]

\* Lines 83-106: q.process takes the head of the queue and runs the worker.
Dispatch(st) ==
  LET item == Head(st.tasks)
      s1 == [st EXCEPT !.tasks = Tail(@),
                       !.numRunning = @ + 1,
                       !.dispatched = @ (+) SetToBag({item})]
  IN  ScrapeUrlStart(s1, item)

RECURSIVE Process(_)
\* q.process: start workers while a slot is free and an item waits.
Process(st) ==
  IF HasFreeWorker(st) /\ st.tasks # <<>>
    THEN Process(Dispatch(st))
    ELSE st

\* Exists, had the check been left out.
ExistsNever(id, ds) == FALSE

\* Line 159: fs.existsSync(path.join(filepath, fileName)).  The empty
\* identifier names ./data itself, which any recursive mkdir creates.
Exists(id, ds) == IF id = <<>> THEN ds # {} ELSE id \in ds

\* Lines 220-242: the drain callback.  writeFileSync throws when ./data does
\* not exist; nothing catches it and the process dies (no callback runs in a
\* crashed state).
Drain(st) ==
  [st EXCEPT !.drainCount = @ + 1,
             !.crashed = ~Exists(<<>>, st.dirs)]

\* The completion callback of a worker (async.queue's _createCB): one worker
\* less, drain when idle, then q.process.
TaskDone(st) ==
  LET s1 == [st EXCEPT !.numRunning = @ - 1, !.settled = Tail(@),
                       !.response = {}]
      s2 == IF Idle(s1) THEN Drain(s1) ELSE s1
  IN  IF s2.crashed THEN s2 ELSE Process(s2)

\* ---------------------------------------------------------------- scrapeUrl

\* ShouldEnqueue, had it consulted `visited` alone.
ShouldEnqueueVisitedOnly(absUrl, seen, vis) ==
  /\ StartsWith(absUrl, <<B>>)
  /\ absUrl \notin vis
  /\ ~Includes(absUrl, "#")

\* Lines 142-143.
ShouldEnqueue(absUrl, seen, vis) ==
  /\ absUrl \notin seen
  /\ StartsWith(absUrl, <<B>>)
  /\ absUrl \notin vis
  /\ ~Includes(absUrl, "#")

\* Admit, had it left out all.add.
AdmitWithoutSeen(st, absUrl) == QueuePush(st, WorkItem(absUrl, 0))

\* Lines 144-145.
Admit(st, absUrl) ==
  [QueuePush(st, WorkItem(absUrl, 0)) EXCEPT !.all = @ \cup {absUrl}]

\* Lines 138-150: one href of the page.
DiscoverLink(st, u, url) ==
  IF ~Resolvable(u) THEN st
  ELSE LET absUrl == Resolve(u, url)
           s1 == IF absUrl \in st.all \ st.visited /\ st.fetching # {}
                   THEN [st EXCEPT !.rediscovered = @ \cup {absUrl}]
                   ELSE st
       IN  IF ShouldEnqueue(absUrl, st.all, st.visited) THEN Admit(s1, absUrl) ELSE s1

\* AppendRecord, had it left out scrapedPagesCount++.
AppendRecordNoCount(st, url, fileName) ==
  [st EXCEPT !.metaData = Append(@, [url |-> url, path |-> fileName])]

\* Lines 195-201: metaData.push and scrapedPagesCount++.
AppendRecord(st, url, fileName) ==
  [st EXCEPT !.metaData = Append(@, [url |-> url, path |-> fileName]),
             !.scrapedPagesCount = @ + 1]

\* Lines 152-201: the rest of the loop body.  An '.article--docs' element
\* that is empty still has length 1 (line 167).  A PageRecord is kept by its
\* url and path; its title plays no part.
PersistPage(st, url, page, fsErr) ==
  LET fileName == FileName(url) IN
  IF Exists(fileName, st.dirs) THEN [st EXCEPT !.skipped = @ \cup {url}]
  ELSE IF page.article = "absent" THEN st
  ELSE IF RewriteThrows(page) THEN [st EXCEPT !.thrown = TRUE]
  ELSE IF fsErr = "mkdir" THEN [st EXCEPT !.thrown = TRUE]
  ELSE LET s1 == [st EXCEPT !.dirs = @ \cup {fileName},
                            !.mkdirs = @ (+) SetToBag({fileName})] IN
       IF fsErr = "write" THEN [s1 EXCEPT !.thrown = TRUE]
       ELSE AppendRecord(s1, url, fileName)

RECURSIVE LinkLoop(_, _, _, _, _)
\* Lines 137-202: for (const u of urls), from the i-th href on; a throw
\* leaves the loop.
LinkLoop(st, url, page, fsErr, i) ==
  IF i > Len(page.links) \/ st.thrown THEN st
  ELSE LinkLoop(PersistPage(DiscoverLink(st, page.links[i], url), url, page, fsErr),
                url, page, fsErr, i + 1)

\* Catch, had it re-submitted the item with its retry count as it was.
CatchSameCount(st, item) ==
  IF item.retries < MAX_RETRIES
    THEN [st EXCEPT !.timers = @ \cup {WorkItem(item.url, item.retries)}]
    ELSE st

\* Lines 204-213: the catch block.
Catch(st, item) ==
  IF item.retries < MAX_RETRIES
    THEN [st EXCEPT !.timers = @ \cup {WorkItem(item.url, item.retries + 1)}]
    ELSE st

\* scrapeUrl after its await; the worker's promise settles either way.
ScrapeUrlFinish(st, item, ok, page, fsErr) ==
  LET s0 == [st EXCEPT !.fetching = @ \ {item}, !.settled = Append(@, item),
                       !.response = {[url |-> item.url, ok |-> ok, page |-> page,
                                      fsErr |-> fsErr]}]
      s1 == IF ok THEN LinkLoop(s0, item.url, page, fsErr, 1)
                  ELSE [s0 EXCEPT !.thrown = TRUE,
                                  !.failures = @ (+) SetToBag({item.url})]
  IN  IF s1.thrown THEN Catch(s1, item) ELSE s1

\* ----------------------------------------------------------------- actions

\* Lines 76-80 and 216-217.
Init ==
  /\ tasks = << WorkItem(base, 0) >>
  /\ numRunning = 0
  /\ processingScheduled = TRUE
  /\ visited = {}
  /\ all = {base}
  /\ fetching = {}
  /\ settled = <<>>
  /\ timers = {}
  /\ dirs = {}
  /\ metaData = <<>>
  /\ scrapedPagesCount = 0
  /\ drainCount = 0
  /\ crashed = FALSE
  /\ pushed = SetToBag({WorkItem(base, 0)})
  /\ fetches = EmptyBag
  /\ failures = EmptyBag
  /\ dispatched = EmptyBag
  /\ mkdirs = EmptyBag
  /\ skipped = {}
  /\ rediscovered = {}
  /\ response = {}

\* A callback of the event loop runs only when no microtask is pending.
MacroTask == ~crashed /\ settled = <<>>

ProcessTick ==
  /\ MacroTask
  /\ processingScheduled
  /\ Commit(Process([State EXCEPT !.processingScheduled = FALSE]))

FetchSucceed ==
  /\ MacroTask
  /\ \E item \in fetching, page \in Pages :
       \E fsErr \in (IF page.article = "absent" THEN {"none"} ELSE FsErrors) :
         Commit(ScrapeUrlFinish(State, item, TRUE, page, fsErr))

FetchFail ==
  /\ MacroTask
  /\ \E item \in fetching :
       Commit(ScrapeUrlFinish(State, item, FALSE,
              [links |-> <<>>, article |-> "absent", inArticle |-> FALSE], "none"))

TaskCallback ==
  /\ ~crashed
  /\ settled # <<>>
  /\ Commit(TaskDone(State))

RetryTimer ==
  /\ MacroTask
  /\ \E item \in timers :
       Commit(QueuePush([State EXCEPT !.timers = @ \ {item}], item))

Next == ProcessTick \/ FetchSucceed \/ FetchFail \/ TaskCallback \/ RetryTimer

Spec == Init /\ [][Next]_vars

\* ------------------------------------------------------------------ claims

\* Nothing is left to run: no queued item, no worker, no timer, no tick.
Quiescent ==
  /\ ~crashed
  /\ tasks = <<>>
  /\ numRunning = 0
  /\ timers = {}
  /\ ~processingScheduled

\* The URLs of the PageRecords.
RecordedUrls == { metaData[i].url : i \in DOMAIN metaData }

\* C1: once the run is over, a URL whose every fetch failed was fetched
\* exactly MAX_RETRIES + 1 times and has no PageRecord.
C1_RetryCeiling ==
  Quiescent =>
    \A u \in BagToSet(failures) :
      CopiesIn(u, failures) = CopiesIn(u, fetches) =>
        /\ CopiesIn(u, fetches) = MAX_RETRIES + 1
        /\ u \notin RecordedUrls

\* C2: a re-submitted WorkItem {url, r} with r >= 1 that a worker has taken
\* up has fetched its URL again: the URL was fetched at least r + 1 times.
C2_RetryRefetches ==
  \A item \in BagToSet(dispatched) :
    item.retries >= 1 => CopiesIn(item.url, fetches) >= item.retries + 1

\* C3: the drain callback is never invoked a second time.
C3_DrainAtMostOnce == drainCount <= 1

\* C4: the drain callback is not invoked while a retry timer is pending.
C4_NoDrainWhileRetryPending ==
  [][drainCount' # drainCount => timers = {}]_vars

\* C5: whenever the drain callback is invoked, no WorkItem waits in the
\* queue, no fetch is pending, and the worker calling back is the only one
\* that had not yet called back.
C5_DrainOnlyWhenIdle ==
  [][drainCount' # drainCount =>
       /\ tasks = <<>> /\ tasks' = <<>>
       /\ fetching = {} /\ fetching' = {}
       /\ Len(settled) = 1 /\ settled' = <<>>
       /\ numRunning' = 0]_vars

\* C5's case: the drain callback has run after running pages pushed links.
C5_Witness == drainCount >= 1 /\ ~crashed /\ Cardinality(all) >= 3

\* C6: every WorkItem with retry count 0 was submitted to the queue at most
\* once and handed to the page processor at most once.
C6_Dedup ==
  \A item \in BagToSet(pushed) \cup BagToSet(dispatched) :
    item.retries = 0 =>
      /\ CopiesIn(item, pushed) <= 1
      /\ CopiesIn(item, dispatched) <= 1

\* C6's case: a page found a link to a URL that was admitted and not yet
\* visited, while another page was being fetched; the URL was then processed.
C6_Witness ==
  \E u \in rediscovered :
    /\ CopiesIn(WorkItem(u, 0), pushed) = 1
    /\ CopiesIn(WorkItem(u, 0), dispatched) = 1

\* C7: every admitted URL has the site's origin and no fragment.
C7_ScopeFilter ==
  \A u \in all : Origin(u) = base /\ ~Includes(u, "#")

\* C8: at most MAX_CONCURRENCY WorkItems are being processed.
C8_BoundedConcurrency ==
  /\ numRunning <= MAX_CONCURRENCY
  /\ Cardinality(fetching) + Len(settled) <= MAX_CONCURRENCY

\* C8's case: every worker slot is taken, by fetches, while an item waits.
C8_Witness ==
  /\ Cardinality(fetching) = MAX_CONCURRENCY
  /\ tasks # <<>>

\* C9: every identifier had its directory created at most once and has at
\* most one PageRecord.
C9_IdempotentOutput ==
  /\ \A id \in BagToSet(mkdirs) : CopiesIn(id, mkdirs) <= 1
  /\ \A i, j \in DOMAIN metaData :
       metaData[i].path = metaData[j].path => i = j

\* C9's case: a page with content was persisted, and the processing of
\* another URL with the same identifier found its directory on disk.
C9_Witness ==
  \E i \in DOMAIN metaData, v \in skipped :
    /\ v # metaData[i].url
    /\ FileName(v) = metaData[i].path
    /\ metaData[i].path # <<>>

\* C10: visited is a subset of all, and neither set ever loses a URL.
C10_Ledger ==
  /\ [](visited \subseteq all)
  /\ [][visited \subseteq visited' /\ all \subseteq all']_vars

\* C10's case: several URLs were admitted, and some of them visited.
C10_Witness ==
  /\ Cardinality(visited) >= 3
  /\ Cardinality(all) >= 4

\* A link of a page that resolves to a URL of the site's origin without a
\* fragment.
InScopeLink(u, url) ==
  /\ Resolvable(u)
  /\ Origin(Resolve(u, url)) = base
  /\ ~Includes(Resolve(u, url), "#")

\* Every in-scope link of the page of response r is in the set seen.
LinksAdmitted(r, seen) ==
  \A i \in DOMAIN r.page.links :
    InScopeLink(r.page.links[i], r.url) => Resolve(r.page.links[i], r.url) \in seen

\* The positions of the PageRecords of URL u in md.
RecordsOf(md, u) == { i \in DOMAIN md : md[i].url = u }

\* C11: the processing of a successfully fetched page with a non-empty
\* content region, whose identifier is not on disk and whose persisting does
\* not fail, leaves exactly one PageRecord for its URL, however many
\* hyperlinks the page holds (the record is then there when drain fires).
C11_OneRecordPerExtractedPage ==
  [][\A r \in response' :
       ( /\ r.ok
         /\ r.page.article = "content"
         /\ r.fsErr = "none"
         /\ ~RewriteThrows(r.page)
         /\ ~Exists(FileName(r.url), dirs) )
       => Cardinality(RecordsOf(metaData', r.url)) = 1]_vars

\* C12: the processing of a successfully fetched page never schedules a
\* retry: a failure while persisting is not retried.
C12_OnlyFetchFailureRetried ==
  [][\A r \in response' : r.ok => timers' = timers]_vars

\* C13: the processing of a successfully fetched page whose content region
\* is absent or empty writes nothing, appends no PageRecord, leaves the
\* counter alone and schedules no retry, and its in-scope links are admitted.
C13_NoContent ==
  [][\A r \in response' :
       (r.ok /\ r.page.article \in {"absent", "empty"})
       => /\ dirs' = dirs
          /\ metaData' = metaData
          /\ scrapedPagesCount' = scrapedPagesCount
          /\ timers' = timers
          /\ LinksAdmitted(r, all')]_vars

\* C14: once the drain callback has been invoked, no work is pending: no
\* queued WorkItem, no fetch and no retry timer.
C14_NoWorkAfterFinalizer ==
  (drainCount >= 1 /\ ~crashed) =>
    (tasks = <<>> /\ fetching = {} /\ timers = {})

\* C15: the processing of a successfully fetched page admits every in-scope
\* link of the page, whether persisting the page fails, is skipped or succeeds.
C15_LinksBeforePersistence ==
  [][\A r \in response' : r.ok => LinksAdmitted(r, all')]_vars

\* C16: the processing of a successfully fetched page with a href that cannot
\* be resolved schedules no retry, admits every in-scope link, and persists
\* the page if it has content (its identifier not being on disk and the
\* filesystem not failing).
C16_MalformedHrefSkipped ==
  [][\A r \in response' :
       ( /\ r.ok
         /\ r.fsErr = "none"
         /\ \E i \in DOMAIN r.page.links : ~Resolvable(r.page.links[i]) )
       => /\ timers' = timers
          /\ LinksAdmitted(r, all')
          /\ (r.page.article = "content" /\ ~Exists(FileName(r.url), dirs))
               => Cardinality(RecordsOf(metaData', r.url)) = 1]_vars

\* The WorkItems a step hands to the worker.
NewlyDispatched ==
  { item \in BagToSet(dispatched') :
      CopiesIn(item, dispatched') > CopiesIn(item, dispatched) }

\* C17: a step that hands to the worker only WorkItems whose URL is already
\* in visited fetches nothing and leaves all, visited, metaData, the counter
\* and the timers as they are; the queue loses the items handed over and
\* nothing else.
C17_VisitedGuardNoOp ==
  [][(NewlyDispatched # {} /\ \A item \in NewlyDispatched : item.url \in visited)
       => /\ fetches' = fetches
          /\ fetching' = fetching
          /\ all' = all
          /\ visited' = visited
          /\ metaData' = metaData
          /\ scrapedPagesCount' = scrapedPagesCount
          /\ timers' = timers
          /\ \E n \in 1..Len(tasks) : tasks' = SubSeq(tasks, n + 1, Len(tasks))]_vars

\* C17's case: a re-submitted WorkItem was handed to the worker, its URL
\* being in visited since the first attempt.
C17_Witness ==
  \E item \in BagToSet(dispatched) :
    /\ item.retries >= 1
    /\ item.url \in visited
    /\ item \notin fetching

\* The WorkItems a step gives to queue.push.
NewlyPushed ==
  { item \in BagToSet(pushed') :
      CopiesIn(item, pushed') > CopiesIn(item, pushed) }

\* C18: every WorkItem submitted or scheduled has a retry count in
\* 0..MAX_RETRIES; a scheduled retry is {url, r + 1} of a WorkItem {url, r}
\* that was handed to the worker; a WorkItem pushed by anything but a retry
\* timer has retry count 0.
C18_RetryCounts ==
  /\ [](\A item \in BagToSet(pushed) \cup timers :
          /\ item.retries \in 0..MAX_RETRIES
          /\ item.retries >= 1 =>
               CopiesIn(WorkItem(item.url, item.retries - 1), dispatched) >= 1)
  /\ [](\A item \in timers : item.retries >= 1)
  /\ [][\A item \in NewlyPushed : item.retries = 0 \/ item \in timers]_vars

\* C18's case: a failed WorkItem was re-submitted with retry count 1.
C18_Witness ==
  \E item \in BagToSet(pushed) :
    /\ item.retries = 1
    /\ CopiesIn(item.url, failures) >= 1

\* C19: the counter equals the number of PageRecords, the counter never
\* decreases and metaData only grows at its end.
C19_CounterMatchesRecords ==
  /\ [](scrapedPagesCount = Len(metaData))
  /\ [][ /\ scrapedPagesCount' >= scrapedPagesCount
         /\ Len(metaData') >= Len(metaData)
         /\ SubSeq(metaData', 1, Len(metaData)) = metaData ]_vars

\* C19's case: two pages were persisted.
C19_Witness == Len(metaData) >= 2 /\ scrapedPagesCount >= 2

=============================================================================
